---------------------------- MODULE Spec2Model ----------------------------
(***************************************************************************)
(* Fee oracle of the eth_sender (core/node/eth_sender): the network-aware  *)
(* GasAdjusterFeesOracle of eth_fees_oracle.rs, the                        *)
(* NetworkAwareFeesOracle of network_aware/fees_oracle.rs and the          *)
(* BscFeeOptimizationConfig of bsc_fee_config.rs; and the chain-config      *)
(* patching of zkstack's chain/bsc_optimization.rs.                        *)
(*                                                                         *)
(* Amounts are u64 wei in the source.  TLC integers are 32 bit wide, so    *)
(* the program's amounts are written as multiples of Gwei, and Gwei stands *)
(* for 10^9 wei scaled down to 10^2.  All integer operations of the source *)
(* (floor division, max, min, comparison) are kept as they are; the f64    *)
(* products of the source are computed with their IEEE-754 rounding.       *)
(* Inputs stay far below 2^53 and 2^63, so no u64 -> f64 conversion is     *)
(* inexact and no u64 product overflows within the model's bounds.         *)
(***************************************************************************)
EXTENDS Integers, Sequences, FiniteSets, TLC

VARIABLES
    env_L1_CHAIN_ID,                       \* the L1_CHAIN_ID environment variable
    chain_id,                              \* NetworkAwareFeesOracle.chain_id
    max_acceptable_priority_fee_in_gwei,   \* GasAdjusterFeesOracle field
    max_acceptable_base_fee_in_wei,        \* GasAdjusterFeesOracle field
    time_in_mempool_in_l1_blocks_cap,      \* GasAdjusterFeesOracle field
    previous_sent_tx,                      \* Option<TxHistory> of the caller
    pc,                                    \* "idle" | "returned"
    call,                                  \* inputs of the last calculate_fees
    result,                                \* what the last calculate_fees did
    chain_config_file                      \* lines of etc/env/configs/<chain>.toml

vars == <<env_L1_CHAIN_ID, chain_id, max_acceptable_priority_fee_in_gwei,
          max_acceptable_base_fee_in_wei, time_in_mempool_in_l1_blocks_cap,
          previous_sent_tx, pc, call, result, chain_config_file>>

config_vars == <<env_L1_CHAIN_ID, chain_id, max_acceptable_priority_fee_in_gwei,
                 max_acceptable_base_fee_in_wei, time_in_mempool_in_l1_blocks_cap,
                 previous_sent_tx, chain_config_file>>

-----------------------------------------------------------------------------
(* Units and bounds *)

Gwei == 10^2

\* Option::None of an Option<u64>
None == 0 - 1

\* a reading the call does not make
NotRead == 0 - 2

\* largest time_in_mempool_in_l1_blocks the caller passes
MaxTimeInMempool == 2

Max(a, b) == IF a >= b THEN a ELSE b

Min(a, b) == IF a <= b THEN a ELSE b

-----------------------------------------------------------------------------
(* IEEE-754 double products of the source *)

RECURSIVE Pow2Floor(_)
\* the largest power of two <= m, m >= 1 (the binade of the double m)
Pow2Floor(m) == IF m < 2 THEN 1 ELSE 2 * Pow2Floor(m \div 2)

\* The double nearest to n/100 is n/100 + (s/25) * 2^-52; s for the literal
\* 1.10 (MIN_PRICE_BUMP_MULTIPLIER of the non-blob paths) and for 2.00.
LiteralSigma25(n) == IF n = 110 THEN 10 ELSE 0

\* s for the double computed by 1.0 + (t as f64 * 0.15)
TimeMultiplierSigma25(t) ==
    CASE t = 0 -> 0   [] t = 1 -> 0 - 10 [] t = 2 -> 5
      [] t = 3 -> 0 - 5 [] t = 4 -> 10   [] t = 5 -> 0
      [] t = 6 -> 0 - 10 [] t = 7 -> 0 - 20 [] OTHER -> 20

\* s for the double computed by 1.0 + (t as f64 * 0.1)
LegacyTimeMultiplierSigma25(t) ==
    CASE t = 0 -> 0   [] t = 1 -> 10 [] t = 2 -> 0 - 5
      [] t = 3 -> 5   [] t = 4 -> 0 - 10 [] t = 5 -> 0
      [] t = 6 -> 10  [] t = 7 -> 20 [] OTHER -> 5

\* (b as f64 * c).ceil() as u64 for the double c = n/100 + (s/25) * 2^-52:
\* the product is rounded to the nearest double before ceil, so an exact
\* integer product M becomes M + 1 when the rounding goes up.
F64MulCeil(b, n, s) ==
    IF b = 0 THEN 0
    ELSE IF (b * n) % 100 # 0 THEN ((b * n) \div 100) + 1
    ELSE LET M == (b * n) \div 100
         IN  IF 2 * b * s > 25 * Pow2Floor(M) THEN M + 1 ELSE M

\* (b as f64 * c) as u64: truncation after the rounding of the product, so an
\* exact integer product M becomes M - 1 when the rounding goes down.
F64MulTrunc(b, n, s) ==
    IF b = 0 THEN 0
    ELSE IF (b * n) % 100 # 0 THEN (b * n) \div 100
    ELSE LET M == (b * n) \div 100
         IN  IF 2 * b * (0 - s) > 25 * Pow2Floor(M) THEN M - 1 ELSE M

-----------------------------------------------------------------------------
(* Network detection *)

\* the environment variable is not set, or does not parse as a u64
EnvNotSet == 0 - 1

\* detect_network_type without the testnet chain IDs
detect_network_type_mainnets_only(id) ==
    CASE id \in {1}  -> "Ethereum"
      [] id \in {56} -> "Bsc"
      [] OTHER       -> "Other"

detect_network_type(id) ==
    CASE id \in {1, 5, 11155111} -> "Ethereum"
      [] id \in {56, 97}         -> "Bsc"
      [] OTHER                   -> "Other"

detect_network_type_from_env ==
    IF env_L1_CHAIN_ID = EnvNotSet THEN "Ethereum"
    ELSE CASE env_L1_CHAIN_ID \in {1, 5, 11155111} -> "Ethereum"
           [] env_L1_CHAIN_ID \in {56, 97}         -> "Bsc"
           [] OTHER                                -> "Other"

-----------------------------------------------------------------------------
(* BscGasPriceProvider *)

min_gas_price == Gwei \div 10

max_gas_price == 5 * Gwei

target_gas_price == 1 * Gwei

fast_priority_fee == Gwei \div 10

congestion_threshold == 3 * Gwei

safety_margin_percent == 10

\* assess_network_congestion with the tier boundaries excluded (< for <=)
assess_network_congestion_exclusive(current_base_fee) ==
    IF current_base_fee < target_gas_price THEN "Low"
    ELSE IF current_base_fee < congestion_threshold THEN "Normal"
    ELSE "Congested"

assess_network_congestion(current_base_fee) ==
    IF current_base_fee <= target_gas_price THEN "Low"
    ELSE IF current_base_fee <= congestion_threshold THEN "Normal"
    ELSE "Congested"

\* get_optimized_gas_price with the safety margin applied in every tier
get_optimized_gas_price_margin_in_every_tier(network_base_fee) ==
    LET base_gas_price == IF network_base_fee > 0 THEN network_base_fee
                          ELSE target_gas_price
        network_status == assess_network_congestion(base_gas_price)
        boosted_fee == (base_gas_price * 150) \div 100
        capped_fee == Min(boosted_fee, max_gas_price)
        optimized_base_fee ==
            CASE network_status = "Low"    -> min_gas_price
              [] network_status = "Normal" -> target_gas_price
              [] OTHER                     -> capped_fee
        optimized_priority_fee ==
            CASE network_status = "Low"    -> fast_priority_fee
              [] network_status = "Normal" -> fast_priority_fee
              [] OTHER                     -> fast_priority_fee * 2
        final_base_fee ==
            (optimized_base_fee * (100 + safety_margin_percent)) \div 100
    IN  [base_fee |-> final_base_fee,
         priority_fee |-> optimized_priority_fee,
         network_status |-> network_status]

\* network_base_fee is what gas_adjuster.get_base_fee(0) returns to this call
get_optimized_gas_price(network_base_fee) ==
    LET base_gas_price == IF network_base_fee > 0 THEN network_base_fee
                          ELSE target_gas_price
        network_status == assess_network_congestion(base_gas_price)
        boosted_fee == (base_gas_price * 150) \div 100
        capped_fee == Min(boosted_fee, max_gas_price)
        optimized_base_fee ==
            CASE network_status = "Low"    -> min_gas_price
              [] network_status = "Normal" -> target_gas_price
              [] OTHER                     -> capped_fee
        optimized_priority_fee ==
            CASE network_status = "Low"    -> fast_priority_fee
              [] network_status = "Normal" -> fast_priority_fee
              [] OTHER                     -> fast_priority_fee * 2
        final_base_fee ==
            IF network_status = "Congested"
            THEN (optimized_base_fee * (100 + safety_margin_percent)) \div 100
            ELSE optimized_base_fee
    IN  [base_fee |-> final_base_fee,
         priority_fee |-> optimized_priority_fee,
         network_status |-> network_status]

-----------------------------------------------------------------------------
(* Results of calculate_fees *)

\* Ok(EthFees { .. })
Quote(base, priority, blob, pubdata) ==
    [kind |-> "Ok",
     base_fee_per_gas |-> base,
     priority_fee_per_gas |-> priority,
     blob_base_fee_per_gas |-> blob,
     max_gas_per_pubdata_price |-> pubdata]

\* Err(EthSenderError::..) for kind "ExceedMaxBaseFee" and "TooLow" (the
\* EnrichedClientError of verify_base_fee_not_too_low_on_resend); a panic of
\* the thread for "PanicZeroFee", "PanicPriorityFee" and "PanicUnwrapNone".
NoQuote(kind) ==
    [kind |-> kind,
     base_fee_per_gas |-> None,
     priority_fee_per_gas |-> None,
     blob_base_fee_per_gas |-> None,
     max_gas_per_pubdata_price |-> None]

PanicKinds == {"PanicZeroFee", "PanicPriorityFee", "PanicUnwrapNone"}

ErrorKinds == {"ExceedMaxBaseFee", "TooLow"}

\* Option::None of the Option<TxHistory> handed to calculate_fees
NoTx == [base_fee_per_gas |-> None,
         priority_fee_per_gas |-> None,
         blob_base_fee_per_gas |-> None,
         max_gas_per_pubdata |-> None]

\* what a helper hands back: a panic, or the u64 it returns
Returns(v) == [panic |-> FALSE, value |-> v]

Panics == [panic |-> TRUE, value |-> None]

-----------------------------------------------------------------------------
(* GasAdjusterFeesOracle helpers *)

\* bsc_read is what get_base_fee(0) returns to the provider call made here
assert_fee_is_not_zero(value, fee_type, bsc_read) ==
    IF value = 0
    THEN CASE detect_network_type_from_env = "Ethereum" -> Panics
           [] detect_network_type_from_env = "Bsc" ->
                CASE fee_type = "base" ->
                       Returns(get_optimized_gas_price(bsc_read).base_fee)
                  [] fee_type = "priority" ->
                       Returns(get_optimized_gas_price(bsc_read).priority_fee)
                  [] fee_type = "blob" -> Returns(Gwei \div 10)
                  [] OTHER -> Returns(1 * Gwei)
           [] OTHER ->
                CASE fee_type = "base" -> Returns(5 * Gwei)
                  [] fee_type = "priority" -> Returns(1 * Gwei)
                  [] fee_type = "blob" -> Returns(1 * Gwei)
                  [] OTHER -> Returns(5 * Gwei)
    ELSE Returns(value)

\* check_priority_fee with the clamp of the non-Ethereum branches left out
check_priority_fee_unclamped(priority_fee_per_gas, bsc_read) ==
    IF /\ priority_fee_per_gas > max_acceptable_priority_fee_in_gwei
       /\ detect_network_type_from_env = "Ethereum"
    THEN Panics
    ELSE Returns(priority_fee_per_gas)

\* check_priority_fee clamping to the ceiling itself on every non-Ethereum
\* network
check_priority_fee_to_ceiling(priority_fee_per_gas, bsc_read) ==
    IF priority_fee_per_gas > max_acceptable_priority_fee_in_gwei
    THEN IF detect_network_type_from_env = "Ethereum" THEN Panics
         ELSE Returns(max_acceptable_priority_fee_in_gwei)
    ELSE Returns(priority_fee_per_gas)

\* check_priority_fee clamping to the ceiling on Ethereum instead of aborting
check_priority_fee_clamping_on_ethereum(priority_fee_per_gas, bsc_read) ==
    IF priority_fee_per_gas > max_acceptable_priority_fee_in_gwei
    THEN CASE detect_network_type_from_env = "Ethereum" ->
                Returns(max_acceptable_priority_fee_in_gwei)
           [] detect_network_type_from_env = "Bsc" ->
                Returns(Min(get_optimized_gas_price(bsc_read).priority_fee,
                            max_acceptable_priority_fee_in_gwei))
           [] OTHER ->
                Returns(Min(max_acceptable_priority_fee_in_gwei, 2 * Gwei))
    ELSE Returns(priority_fee_per_gas)

check_priority_fee(priority_fee_per_gas, bsc_read) ==
    IF priority_fee_per_gas > max_acceptable_priority_fee_in_gwei
    THEN CASE detect_network_type_from_env = "Ethereum" -> Panics
           [] detect_network_type_from_env = "Bsc" ->
                Returns(Min(get_optimized_gas_price(bsc_read).priority_fee,
                            max_acceptable_priority_fee_in_gwei))
           [] OTHER ->
                Returns(Min(max_acceptable_priority_fee_in_gwei, 2 * Gwei))
    ELSE Returns(priority_fee_per_gas)

is_base_fee_exceeding_limit(value) ==
    value > max_acceptable_base_fee_in_wei

\* verify_base_fee_not_too_low_on_resend without the comparison against the
\* previous fee
verify_base_fee_ignoring_previous(previous_fee, fee_to_use, next_block_minimal_fee, min_price_bump_multiplier) ==
    ~ (fee_to_use < next_block_minimal_fee)

\* TRUE for Ok(()), FALSE for the "is too low" error; the multiplier is given
\* in percent (110 for 1.10, 200 for 2.00)
verify_base_fee_not_too_low_on_resend(previous_fee, fee_to_use, next_block_minimal_fee, min_price_bump_multiplier) ==
    ~ (\/ fee_to_use < next_block_minimal_fee
       \/ fee_to_use < F64MulCeil(previous_fee, min_price_bump_multiplier,
                                  LiteralSigma25(min_price_bump_multiplier)))

-----------------------------------------------------------------------------
(* GasAdjusterFeesOracle: the fee paths.  previous is None or a TxHistory;  *)
(* ga holds what each getter of the TxParamsProvider returns to this call. *)

\* calculate_bsc_optimized_fees with BSC_PRICE_BUMP_MULTIPLIER = 1
calculate_bsc_optimized_fees_bump_by_one(previous, time_in_mempool_in_l1_blocks, ga) ==
    LET bsc_result == get_optimized_gas_price(ga.bsc_main_base_fee)
        bumped_base ==
            IF previous # NoTx
            THEN Max(bsc_result.base_fee, previous.base_fee_per_gas * 1)
            ELSE bsc_result.base_fee
        bumped_priority ==
            IF previous # NoTx
            THEN Max(bsc_result.priority_fee, previous.priority_fee_per_gas * 1)
            ELSE bsc_result.priority_fee
        percent == 100 + 15 * time_in_mempool_in_l1_blocks
        sigma == TimeMultiplierSigma25(time_in_mempool_in_l1_blocks)
        base_fee_per_gas ==
            IF time_in_mempool_in_l1_blocks > 0
            THEN F64MulTrunc(bumped_base, percent, sigma)
            ELSE bumped_base
        priority_fee_per_gas ==
            IF time_in_mempool_in_l1_blocks > 0
            THEN F64MulTrunc(bumped_priority, percent, sigma)
            ELSE bumped_priority
        checked == check_priority_fee(priority_fee_per_gas, ga.bsc_check_base_fee)
    IN  IF is_base_fee_exceeding_limit(base_fee_per_gas)
        THEN NoQuote("ExceedMaxBaseFee")
        ELSE IF checked.panic THEN NoQuote("PanicPriorityFee")
        ELSE Quote(base_fee_per_gas, checked.value, None, None)

\* calculate_bsc_optimized_fees without the bump over the previous attempt
calculate_bsc_optimized_fees_no_resend_bump(previous, time_in_mempool_in_l1_blocks, ga) ==
    calculate_bsc_optimized_fees_bump_by_one(NoTx,
                                             time_in_mempool_in_l1_blocks, ga)

\* calculate_bsc_optimized_fees with the time in the mempool limited by
\* time_in_mempool_in_l1_blocks_cap before the multiplier is computed
calculate_bsc_optimized_fees_capped_time(previous, uncapped_time, ga) ==
    LET time_in_mempool_in_l1_blocks ==
            Min(uncapped_time, time_in_mempool_in_l1_blocks_cap)
        bsc_result == get_optimized_gas_price(ga.bsc_main_base_fee)
        bumped_base ==
            IF previous # NoTx
            THEN Max(bsc_result.base_fee, previous.base_fee_per_gas * 2)
            ELSE bsc_result.base_fee
        bumped_priority ==
            IF previous # NoTx
            THEN Max(bsc_result.priority_fee, previous.priority_fee_per_gas * 2)
            ELSE bsc_result.priority_fee
        percent == 100 + 15 * time_in_mempool_in_l1_blocks
        sigma == TimeMultiplierSigma25(time_in_mempool_in_l1_blocks)
        base_fee_per_gas ==
            IF time_in_mempool_in_l1_blocks > 0
            THEN F64MulTrunc(bumped_base, percent, sigma)
            ELSE bumped_base
        priority_fee_per_gas ==
            IF time_in_mempool_in_l1_blocks > 0
            THEN F64MulTrunc(bumped_priority, percent, sigma)
            ELSE bumped_priority
        checked == check_priority_fee(priority_fee_per_gas, ga.bsc_check_base_fee)
    IN  IF is_base_fee_exceeding_limit(base_fee_per_gas)
        THEN NoQuote("ExceedMaxBaseFee")
        ELSE IF checked.panic THEN NoQuote("PanicPriorityFee")
        ELSE Quote(base_fee_per_gas, checked.value, None, None)

calculate_bsc_optimized_fees(previous, time_in_mempool_in_l1_blocks, ga) ==
    LET bsc_result == get_optimized_gas_price(ga.bsc_main_base_fee)
        bumped_base ==
            IF previous # NoTx
            THEN Max(bsc_result.base_fee, previous.base_fee_per_gas * 2)
            ELSE bsc_result.base_fee
        bumped_priority ==
            IF previous # NoTx
            THEN Max(bsc_result.priority_fee, previous.priority_fee_per_gas * 2)
            ELSE bsc_result.priority_fee
        percent == 100 + 15 * time_in_mempool_in_l1_blocks
        sigma == TimeMultiplierSigma25(time_in_mempool_in_l1_blocks)
        base_fee_per_gas ==
            IF time_in_mempool_in_l1_blocks > 0
            THEN F64MulTrunc(bumped_base, percent, sigma)
            ELSE bumped_base
        priority_fee_per_gas ==
            IF time_in_mempool_in_l1_blocks > 0
            THEN F64MulTrunc(bumped_priority, percent, sigma)
            ELSE bumped_priority
        checked == check_priority_fee(priority_fee_per_gas, ga.bsc_check_base_fee)
    IN  IF is_base_fee_exceeding_limit(base_fee_per_gas)
        THEN NoQuote("ExceedMaxBaseFee")
        ELSE IF checked.panic THEN NoQuote("PanicPriorityFee")
        ELSE Quote(base_fee_per_gas, checked.value, None, None)

\* calculate_fees_with_blob_sidecar whose (Ok, Err) and (Err, Ok) arms keep the
\* freshly read fee instead of 2 x previous
calculate_fees_with_blob_sidecar_no_bump(previous, time_in_mempool_in_l1_blocks, ga) ==
    LET capped_time_in_mempool_in_l1_blocks ==
            Min(time_in_mempool_in_l1_blocks, time_in_mempool_in_l1_blocks_cap)
        base == assert_fee_is_not_zero(ga.get_blob_tx_base_fee, "base",
                                       ga.bsc_assert_base_fee)
        blob == assert_fee_is_not_zero(ga.get_blob_tx_blob_base_fee, "blob",
                                       ga.bsc_assert_base_fee)
        blob_result ==
            verify_base_fee_not_too_low_on_resend(
                IF previous.blob_base_fee_per_gas = None THEN 0
                ELSE previous.blob_base_fee_per_gas,
                blob.value, ga.get_next_block_minimal_blob_base_fee, 200)
        base_result ==
            verify_base_fee_not_too_low_on_resend(
                previous.base_fee_per_gas, base.value,
                ga.get_next_block_minimal_base_fee, 200)
        base_fee_per_gas ==
            IF previous # NoTx /\ blob_result /\ ~base_result
            THEN base.value
            ELSE base.value
        blob_base_fee_per_gas ==
            IF previous # NoTx /\ ~blob_result /\ base_result
            THEN blob.value
            ELSE blob.value
        priority_fee_per_gas ==
            IF previous # NoTx
            THEN Max(ga.get_blob_tx_priority_fee,
                     previous.priority_fee_per_gas * 2)
            ELSE ga.get_blob_tx_priority_fee
        checked == check_priority_fee(priority_fee_per_gas, ga.bsc_check_base_fee)
    IN  IF base.panic THEN NoQuote("PanicZeroFee")
        ELSE IF is_base_fee_exceeding_limit(base.value)
        THEN NoQuote("ExceedMaxBaseFee")
        ELSE IF blob.panic THEN NoQuote("PanicZeroFee")
        ELSE IF previous # NoTx /\ ~blob_result /\ ~base_result
        THEN NoQuote("TooLow")
        ELSE IF /\ previous # NoTx /\ ~blob_result /\ base_result
                /\ previous.blob_base_fee_per_gas = None
        THEN NoQuote("PanicUnwrapNone")
        ELSE IF checked.panic THEN NoQuote("PanicPriorityFee")
        ELSE Quote(base_fee_per_gas, checked.value, blob_base_fee_per_gas, None)

calculate_fees_with_blob_sidecar(previous, time_in_mempool_in_l1_blocks, ga) ==
    LET capped_time_in_mempool_in_l1_blocks ==
            Min(time_in_mempool_in_l1_blocks, time_in_mempool_in_l1_blocks_cap)
        base == assert_fee_is_not_zero(ga.get_blob_tx_base_fee, "base",
                                       ga.bsc_assert_base_fee)
        blob == assert_fee_is_not_zero(ga.get_blob_tx_blob_base_fee, "blob",
                                       ga.bsc_assert_base_fee)
        blob_result ==
            verify_base_fee_not_too_low_on_resend(
                IF previous.blob_base_fee_per_gas = None THEN 0
                ELSE previous.blob_base_fee_per_gas,
                blob.value, ga.get_next_block_minimal_blob_base_fee, 200)
        base_result ==
            verify_base_fee_not_too_low_on_resend(
                previous.base_fee_per_gas, base.value,
                ga.get_next_block_minimal_base_fee, 200)
        base_fee_per_gas ==
            IF previous # NoTx /\ blob_result /\ ~base_result
            THEN previous.base_fee_per_gas * 2
            ELSE base.value
        blob_base_fee_per_gas ==
            IF previous # NoTx /\ ~blob_result /\ base_result
            THEN previous.blob_base_fee_per_gas * 2
            ELSE blob.value
        priority_fee_per_gas ==
            IF previous # NoTx
            THEN Max(ga.get_blob_tx_priority_fee,
                     previous.priority_fee_per_gas * 2)
            ELSE ga.get_blob_tx_priority_fee
        checked == check_priority_fee(priority_fee_per_gas, ga.bsc_check_base_fee)
    IN  IF base.panic THEN NoQuote("PanicZeroFee")
        ELSE IF is_base_fee_exceeding_limit(base.value)
        THEN NoQuote("ExceedMaxBaseFee")
        ELSE IF blob.panic THEN NoQuote("PanicZeroFee")
        ELSE IF previous # NoTx /\ ~blob_result /\ ~base_result
        THEN NoQuote("TooLow")
        ELSE IF /\ previous # NoTx /\ ~blob_result /\ base_result
                /\ previous.blob_base_fee_per_gas = None
        THEN NoQuote("PanicUnwrapNone")
        ELSE IF checked.panic THEN NoQuote("PanicPriorityFee")
        ELSE Quote(base_fee_per_gas, checked.value, blob_base_fee_per_gas, None)

calculate_fees_no_blob_sidecar(previous, time_in_mempool_in_l1_blocks, ga) ==
    LET capped_time_in_mempool_in_l1_blocks ==
            Min(time_in_mempool_in_l1_blocks, time_in_mempool_in_l1_blocks_cap)
        base == assert_fee_is_not_zero(ga.get_base_fee, "base",
                                       ga.bsc_assert_base_fee)
        priority_fee_per_gas ==
            IF previous # NoTx
            THEN Max(ga.get_priority_fee,
                     F64MulCeil(previous.priority_fee_per_gas, 110,
                                LiteralSigma25(110)))
            ELSE ga.get_priority_fee
        checked == check_priority_fee(priority_fee_per_gas, ga.bsc_check_base_fee)
    IN  IF base.panic THEN NoQuote("PanicZeroFee")
        ELSE IF is_base_fee_exceeding_limit(base.value)
        THEN NoQuote("ExceedMaxBaseFee")
        ELSE IF /\ previous # NoTx
                /\ ~verify_base_fee_not_too_low_on_resend(
                       previous.base_fee_per_gas, base.value,
                       ga.get_next_block_minimal_base_fee, 110)
        THEN NoQuote("TooLow")
        ELSE IF checked.panic THEN NoQuote("PanicPriorityFee")
        ELSE Quote(base.value, checked.value, None, None)

calculate_fees_for_gateway_tx(previous, time_in_mempool_in_l1_blocks, ga) ==
    LET capped_time_in_mempool_in_l1_blocks ==
            Min(time_in_mempool_in_l1_blocks, time_in_mempool_in_l1_blocks_cap)
        base == assert_fee_is_not_zero(ga.gateway_get_base_fee, "base",
                                       ga.bsc_assert_base_fee)
        gas_per_pubdata ==
            IF previous # NoTx /\ previous.max_gas_per_pubdata # None
            THEN Max(ga.get_gateway_price_per_pubdata,
                     F64MulCeil(previous.max_gas_per_pubdata, 110,
                                LiteralSigma25(110)))
            ELSE ga.get_gateway_price_per_pubdata
    IN  IF base.panic THEN NoQuote("PanicZeroFee")
        ELSE IF is_base_fee_exceeding_limit(base.value)
        THEN NoQuote("ExceedMaxBaseFee")
        ELSE IF /\ previous # NoTx
                /\ ~verify_base_fee_not_too_low_on_resend(
                       previous.base_fee_per_gas, base.value,
                       ga.get_next_block_minimal_base_fee, 110)
        THEN NoQuote("TooLow")
        ELSE Quote(base.value, 0, None, gas_per_pubdata)

\* EthFeesOracle::calculate_fees of GasAdjusterFeesOracle
calculate_fees(previous, time_in_mempool_in_l1_blocks, operator_type, ga) ==
    IF detect_network_type_from_env = "Bsc"
    THEN IF operator_type \in {"NonBlob", "Blob"}
         THEN calculate_bsc_optimized_fees(previous,
                                           time_in_mempool_in_l1_blocks, ga)
         ELSE LET gateway == calculate_fees_for_gateway_tx(
                                 previous, time_in_mempool_in_l1_blocks, ga)
              IN  IF gateway.kind # "Ok" THEN gateway
                  ELSE [gateway EXCEPT !.base_fee_per_gas =
                           get_optimized_gas_price(ga.bsc_main_base_fee).base_fee]
    ELSE CASE operator_type = "NonBlob" ->
                calculate_fees_no_blob_sidecar(previous,
                                               time_in_mempool_in_l1_blocks, ga)
           [] operator_type = "Blob" ->
                calculate_fees_with_blob_sidecar(previous,
                                                 time_in_mempool_in_l1_blocks, ga)
           [] OTHER ->
                calculate_fees_for_gateway_tx(previous,
                                              time_in_mempool_in_l1_blocks, ga)

-----------------------------------------------------------------------------
(* NetworkAwareFeesOracle *)

BSC_DEFAULT_GAS_PRICE == 20 * Gwei

BSC_DEFAULT_PRIORITY_FEE == 1 * Gwei

\* calculate_bsc_fees without the clamp of the priority fee
calculate_bsc_fees_unclamped(previous, time_in_mempool_in_l1_blocks, operator_type) ==
    LET bumped_base ==
            IF previous # NoTx
            THEN Max(BSC_DEFAULT_GAS_PRICE, previous.base_fee_per_gas * 2)
            ELSE BSC_DEFAULT_GAS_PRICE
        bumped_priority ==
            IF previous # NoTx
            THEN Max(BSC_DEFAULT_PRIORITY_FEE, previous.priority_fee_per_gas * 2)
            ELSE BSC_DEFAULT_PRIORITY_FEE
        percent == 100 + 10 * time_in_mempool_in_l1_blocks
        sigma == LegacyTimeMultiplierSigma25(time_in_mempool_in_l1_blocks)
        base_fee_per_gas ==
            IF time_in_mempool_in_l1_blocks > 0
            THEN F64MulTrunc(bumped_base, percent, sigma)
            ELSE bumped_base
        priority_fee_per_gas ==
            IF time_in_mempool_in_l1_blocks > 0
            THEN F64MulTrunc(bumped_priority, percent, sigma)
            ELSE bumped_priority
    IN  IF base_fee_per_gas > max_acceptable_base_fee_in_wei
        THEN NoQuote("ExceedMaxBaseFee")
        ELSE Quote(base_fee_per_gas, priority_fee_per_gas, None, None)

calculate_bsc_fees(previous, time_in_mempool_in_l1_blocks, operator_type) ==
    LET bumped_base ==
            IF previous # NoTx
            THEN Max(BSC_DEFAULT_GAS_PRICE, previous.base_fee_per_gas * 2)
            ELSE BSC_DEFAULT_GAS_PRICE
        bumped_priority ==
            IF previous # NoTx
            THEN Max(BSC_DEFAULT_PRIORITY_FEE, previous.priority_fee_per_gas * 2)
            ELSE BSC_DEFAULT_PRIORITY_FEE
        percent == 100 + 10 * time_in_mempool_in_l1_blocks
        sigma == LegacyTimeMultiplierSigma25(time_in_mempool_in_l1_blocks)
        base_fee_per_gas ==
            IF time_in_mempool_in_l1_blocks > 0
            THEN F64MulTrunc(bumped_base, percent, sigma)
            ELSE bumped_base
        priority_fee_per_gas ==
            IF time_in_mempool_in_l1_blocks > 0
            THEN F64MulTrunc(bumped_priority, percent, sigma)
            ELSE bumped_priority
    IN  IF base_fee_per_gas > max_acceptable_base_fee_in_wei
        THEN NoQuote("ExceedMaxBaseFee")
        ELSE Quote(base_fee_per_gas,
                   IF priority_fee_per_gas > max_acceptable_priority_fee_in_gwei
                   THEN max_acceptable_priority_fee_in_gwei
                   ELSE priority_fee_per_gas,
                   None, None)

calculate_legacy_fees(previous, time_in_mempool_in_l1_blocks, operator_type) ==
    calculate_bsc_fees(previous, time_in_mempool_in_l1_blocks, operator_type)

\* EthFeesOracle::calculate_fees of NetworkAwareFeesOracle; network_type is
\* the field set by NetworkAwareFeesOracle::new from chain_id
network_aware_calculate_fees(previous, time_in_mempool_in_l1_blocks, operator_type, ga) ==
    LET network_type == detect_network_type(chain_id)
    IN  CASE network_type = "Ethereum" ->
               calculate_fees(previous, time_in_mempool_in_l1_blocks,
                              operator_type, ga)
          [] network_type = "Bsc" ->
               calculate_bsc_fees(previous, time_in_mempool_in_l1_blocks,
                                  operator_type)
          [] OTHER ->
               calculate_legacy_fees(previous, time_in_mempool_in_l1_blocks,
                                     operator_type)

-----------------------------------------------------------------------------
(* Inputs: the deployment, the caller's history, the price source *)

\* time_in_mempool_in_l1_blocks_cap of the deployment
TimeCap == 1

EnvValues == {1, 56, 137}

ChainIds == {1, 56, 137}

MaxBaseFees == {3 * Gwei, 6 * Gwei}

MaxPriorityFees == {1 * Gwei, 3 * Gwei}

OperatorTypes == {"NonBlob", "Blob", "Gateway"}

TxHistories ==
    [base_fee_per_gas : {1 * Gwei, (5 * Gwei) \div 2},
     priority_fee_per_gas : {Gwei \div 10, (9 * Gwei) \div 5},
     blob_base_fee_per_gas : {None, (2 * Gwei) \div 5},
     max_gas_per_pubdata : {None, Gwei \div 2}]

BaseFees == {0, Gwei \div 2, 2 * Gwei, 4 * Gwei}

PriorityFees == {0, Gwei \div 5, 4 * Gwei}

BlobFees == {0, (3 * Gwei) \div 10, (9 * Gwei) \div 10}

NextBlockMinimalBaseFees == {0, 3 * Gwei}

NextBlockMinimalBlobBaseFees == {0, Gwei \div 2}

PubdataPrices == {Gwei \div 10, (3 * Gwei) \div 5}

Reading(read, values) == IF read THEN values ELSE {NotRead}

\* What the TxParamsProvider can return to one calculate_fees call: one value
\* per getter call the selected path makes.  get_base_fee(0) is called by the
\* BscGasPriceProvider from up to three places, each with its own reading.
GasAdjusterReads(operator_type, previous) ==
    LET bsc == detect_network_type_from_env = "Bsc"
        no_blob == ~bsc /\ operator_type = "NonBlob"
        with_blob == ~bsc /\ operator_type = "Blob"
        gateway == operator_type = "Gateway"
        optimized == bsc /\ operator_type \in {"NonBlob", "Blob"}
        resend == previous # NoTx
    IN  { ga \in
          [get_base_fee : Reading(no_blob, BaseFees),
           get_priority_fee : Reading(no_blob, PriorityFees),
           get_next_block_minimal_base_fee :
               Reading(resend /\ ~optimized, NextBlockMinimalBaseFees),
           get_blob_tx_base_fee : Reading(with_blob, BaseFees),
           get_blob_tx_blob_base_fee : Reading(with_blob, BlobFees),
           get_blob_tx_priority_fee : Reading(with_blob, PriorityFees),
           get_next_block_minimal_blob_base_fee :
               Reading(resend /\ with_blob, NextBlockMinimalBlobBaseFees),
           gateway_get_base_fee : Reading(gateway, BaseFees),
           get_gateway_price_per_pubdata : Reading(gateway, PubdataPrices),
           bsc_assert_base_fee : Reading(bsc /\ gateway, BaseFees) \cup {NotRead},
           bsc_main_base_fee : Reading(bsc, BaseFees),
           bsc_check_base_fee : Reading(optimized, {0, 4 * Gwei})] :
          (ga.bsc_assert_base_fee # NotRead) <=> (bsc /\ ga.gateway_get_base_fee = 0) }

NoReads == [get_base_fee |-> NotRead,
            get_priority_fee |-> NotRead,
            get_next_block_minimal_base_fee |-> NotRead,
            get_blob_tx_base_fee |-> NotRead,
            get_blob_tx_blob_base_fee |-> NotRead,
            get_blob_tx_priority_fee |-> NotRead,
            get_next_block_minimal_blob_base_fee |-> NotRead,
            gateway_get_base_fee |-> NotRead,
            get_gateway_price_per_pubdata |-> NotRead,
            bsc_assert_base_fee |-> NotRead,
            bsc_main_base_fee |-> NotRead,
            bsc_check_base_fee |-> NotRead]

NoCall == [oracle |-> "none", operator_type |-> "none",
           time_in_mempool_in_l1_blocks |-> 0, ga |-> NoReads]

-----------------------------------------------------------------------------
(* The state machine: the sender calls calculate_fees and takes the result *)

Init ==
    /\ env_L1_CHAIN_ID \in EnvValues
    /\ chain_id \in ChainIds
    /\ max_acceptable_priority_fee_in_gwei \in MaxPriorityFees
    /\ max_acceptable_base_fee_in_wei \in MaxBaseFees
    /\ time_in_mempool_in_l1_blocks_cap = TimeCap
    /\ previous_sent_tx \in TxHistories \cup {NoTx}
    /\ pc = "idle"
    /\ call = NoCall
    /\ result = NoQuote("none")
    /\ chain_config_file = <<>>

\* GasAdjusterFeesOracle::calculate_fees
CalculateFees ==
    /\ pc = "idle"
    /\ \E operator_type \in OperatorTypes, t \in 0..MaxTimeInMempool :
         \E ga \in GasAdjusterReads(operator_type, previous_sent_tx) :
            /\ call' = [oracle |-> "GasAdjusterFeesOracle",
                        operator_type |-> operator_type,
                        time_in_mempool_in_l1_blocks |-> t,
                        ga |-> ga]
            /\ result' = calculate_fees(previous_sent_tx, t, operator_type, ga)
    /\ pc' = "returned"
    /\ UNCHANGED config_vars

\* NetworkAwareFeesOracle::calculate_fees
NetworkAwareCalculateFees ==
    /\ pc = "idle"
    /\ \E operator_type \in OperatorTypes, t \in 0..MaxTimeInMempool :
         \E ga \in IF detect_network_type(chain_id) = "Ethereum"
                   THEN GasAdjusterReads(operator_type, previous_sent_tx)
                   ELSE {NoReads} :
            /\ call' = [oracle |-> "NetworkAwareFeesOracle",
                        operator_type |-> operator_type,
                        time_in_mempool_in_l1_blocks |-> t,
                        ga |-> ga]
            /\ result' = network_aware_calculate_fees(previous_sent_tx, t,
                                                      operator_type, ga)
    /\ pc' = "returned"
    /\ UNCHANGED config_vars

\* the sender takes the result; the oracle keeps nothing of the call
TakeResult ==
    /\ pc = "returned"
    /\ pc' = "idle"
    /\ call' = NoCall
    /\ result' = NoQuote("none")
    /\ UNCHANGED config_vars

Next ==
    \/ CalculateFees
    \/ NetworkAwareCalculateFees
    \/ TakeResult

Spec == Init /\ [][Next]_vars

-----------------------------------------------------------------------------
(* The same call under another L1_CHAIN_ID *)

\* what the TxParamsProvider returns to two calls between which the price
\* source has not moved: a getter read by both calls returns the same value,
\* and so does every get_base_fee(0) of the BscGasPriceProvider and, when the
\* capped time in the mempool is 0, the get_base_fee of the standard path
SameSource(ga1, ga2, time_in_mempool_in_l1_blocks) ==
    /\ \A getter \in DOMAIN ga1 :
          Cardinality({ga1[getter], ga2[getter]} \ {NotRead}) <= 1
    /\ LET capped == Min(time_in_mempool_in_l1_blocks,
                         time_in_mempool_in_l1_blocks_cap)
           base_fee_at_0 ==
               {ga1.bsc_assert_base_fee, ga1.bsc_main_base_fee,
                ga1.bsc_check_base_fee, ga2.bsc_assert_base_fee,
                ga2.bsc_main_base_fee, ga2.bsc_check_base_fee}
               \cup (IF capped = 0 THEN {ga1.get_base_fee, ga2.get_base_fee}
                     ELSE {})
       IN  Cardinality(base_fee_at_0 \ {NotRead}) <= 1

\* L1_CHAIN_ID is set to another value in the process environment and the
\* sender makes the same call again on the same GasAdjusterFeesOracle (same
\* previous attempt, time in the mempool and operator kind) while the price
\* source has not moved; detect_network_type_from_env reads the variable anew
\* on every call
CalculateFeesAfterSetEnv ==
    /\ pc = "returned"
    /\ \E v \in EnvValues \ {env_L1_CHAIN_ID} :
         /\ env_L1_CHAIN_ID' = v
         /\ UNCHANGED <<chain_id, max_acceptable_priority_fee_in_gwei,
                        max_acceptable_base_fee_in_wei,
                        time_in_mempool_in_l1_blocks_cap, previous_sent_tx,
                        chain_config_file>>
         /\ \E previous \in {previous_sent_tx},
               t \in {call.time_in_mempool_in_l1_blocks},
               operator_type \in {call.operator_type} :
              \E ga \in { reads \in GasAdjusterReads(operator_type, previous)' :
                           SameSource(call.ga, reads, t) } :
                 /\ call' = [call EXCEPT !.ga = ga]
                 /\ result' = calculate_fees(previous, t, operator_type, ga)'
    /\ pc' = "returned"

\* a deployment that uses GasAdjusterFeesOracle directly: chain_id, the field
\* of NetworkAwareFeesOracle, plays no part
InitGasAdjuster ==
    /\ Init
    /\ chain_id = 1

NextSetEnv ==
    \/ CalculateFees
    \/ CalculateFeesAfterSetEnv
    \/ TakeResult

SpecSetEnv == InitGasAdjuster /\ [][NextSetEnv]_vars

-----------------------------------------------------------------------------
(* BscFeeOptimizationConfig (bsc_fee_config.rs): default, from_env, validate *)

\* the fields that from_env and validate read or write
BscFeeOptimizationConfig_default ==
    [enabled |-> TRUE,
     min_base_fee |-> Gwei \div 10,
     max_base_fee |-> 5 * Gwei,
     target_base_fee |-> 1 * Gwei,
     safety_margin_percent |-> 10,
     min_priority_fee |-> Gwei \div 10,
     max_priority_fee |-> 2 * Gwei,
     fast_priority_fee |-> Gwei \div 2,
     congestion_threshold |-> 3 * Gwei]

\* str::to_lowercase on the values BSC_FEE_OPTIMIZATION_ENABLED takes here
to_lowercase(str) ==
    CASE str \in {"true", "TRUE", "True"} -> "true"
      [] str \in {"false", "FALSE"}        -> "false"
      [] OTHER                             -> str

\* env holds the BSC_* variables: EnvNotSet for a variable that is not set
\* (for the u64 ones also: does not parse as a u64)
from_env(env) ==
    [enabled |->
         IF env.BSC_FEE_OPTIMIZATION_ENABLED # "unset"
         THEN to_lowercase(env.BSC_FEE_OPTIMIZATION_ENABLED) = "true"
         ELSE BscFeeOptimizationConfig_default.enabled,
     min_base_fee |->
         IF env.BSC_MIN_BASE_FEE # EnvNotSet THEN env.BSC_MIN_BASE_FEE
         ELSE BscFeeOptimizationConfig_default.min_base_fee,
     max_base_fee |->
         IF env.BSC_MAX_BASE_FEE # EnvNotSet THEN env.BSC_MAX_BASE_FEE
         ELSE BscFeeOptimizationConfig_default.max_base_fee,
     target_base_fee |->
         IF env.BSC_TARGET_BASE_FEE # EnvNotSet THEN env.BSC_TARGET_BASE_FEE
         ELSE BscFeeOptimizationConfig_default.target_base_fee,
     safety_margin_percent |->
         BscFeeOptimizationConfig_default.safety_margin_percent,
     min_priority_fee |-> BscFeeOptimizationConfig_default.min_priority_fee,
     max_priority_fee |-> BscFeeOptimizationConfig_default.max_priority_fee,
     fast_priority_fee |->
         IF env.BSC_FAST_PRIORITY_FEE # EnvNotSet THEN env.BSC_FAST_PRIORITY_FEE
         ELSE BscFeeOptimizationConfig_default.fast_priority_fee,
     congestion_threshold |->
         IF env.BSC_CONGESTION_THRESHOLD # EnvNotSet
         THEN env.BSC_CONGESTION_THRESHOLD
         ELSE BscFeeOptimizationConfig_default.congestion_threshold]

\* Ok(()) or Err(message)
validate(config) ==
    IF config.min_base_fee >= config.max_base_fee
    THEN [kind |-> "Err",
          message |-> "min_base_fee must be less than max_base_fee"]
    ELSE IF \/ config.target_base_fee < config.min_base_fee
            \/ config.target_base_fee > config.max_base_fee
    THEN [kind |-> "Err",
          message |-> "target_base_fee must be between min_base_fee and max_base_fee"]
    ELSE IF config.min_priority_fee >= config.max_priority_fee
    THEN [kind |-> "Err",
          message |-> "min_priority_fee must be less than max_priority_fee"]
    ELSE IF config.congestion_threshold <= config.target_base_fee
    THEN [kind |-> "Err",
          message |-> "congestion_threshold should be higher than target_base_fee"]
    ELSE [kind |-> "Ok", message |-> ""]

\* values of the BSC_* fee variables in the environment
EnvFees == {EnvNotSet, Gwei \div 10, 1 * Gwei, 3 * Gwei, 5 * Gwei}

EnvFlags == {"unset", "true", "TRUE", "false", "1"}

BscEnvs ==
    [BSC_MIN_BASE_FEE : EnvFees,
     BSC_MAX_BASE_FEE : EnvFees,
     BSC_TARGET_BASE_FEE : EnvFees,
     BSC_FAST_PRIORITY_FEE : {EnvNotSet, Gwei \div 10},
     BSC_CONGESTION_THRESHOLD : EnvFees,
     BSC_FEE_OPTIMIZATION_ENABLED : EnvFlags]

\* configurations written as a struct literal (every field is pub)
PriorityFeeBounds == {Gwei \div 10, 2 * Gwei}

\* BscFeeOptimizationConfig::from_env(): the configuration is handed back
LoadFromEnv ==
    /\ pc = "idle"
    /\ \E env \in BscEnvs :
         /\ call' = [fn |-> "from_env", env |-> env]
         /\ result' = [kind |-> "Config", config |-> from_env(env)]
    /\ pc' = "loaded"
    /\ UNCHANGED config_vars

\* a BscFeeOptimizationConfig with other priority-fee bounds than the default
\* ones, which from_env never sets
SetPriorityFeeBounds ==
    /\ pc = "loaded"
    /\ call.fn = "from_env"
    /\ \E lo \in PriorityFeeBounds, hi \in PriorityFeeBounds :
         /\ <<lo, hi>> # <<result.config.min_priority_fee,
                           result.config.max_priority_fee>>
         /\ call' = [fn |-> "struct update", env |-> call.env]
         /\ result' = [result EXCEPT !.config.min_priority_fee = lo,
                                     !.config.max_priority_fee = hi]
    /\ pc' = "loaded"
    /\ UNCHANGED config_vars

\* config.validate()
Validate ==
    /\ pc = "loaded"
    /\ call' = [fn |-> "validate", loaded_by |-> call.fn,
                config |-> result.config]
    /\ result' = validate(result.config)
    /\ pc' = "returned"
    /\ UNCHANGED config_vars

\* one deployment, for the functions that do not read the oracle's fields
InitSingleDeployment ==
    /\ Init
    /\ env_L1_CHAIN_ID = 56
    /\ chain_id = 56
    /\ max_acceptable_priority_fee_in_gwei = 1 * Gwei
    /\ max_acceptable_base_fee_in_wei = 6 * Gwei
    /\ previous_sent_tx = NoTx

NextConfig ==
    \/ LoadFromEnv
    \/ SetPriorityFeeBounds
    \/ Validate
    \/ TakeResult

SpecConfig == InitSingleDeployment /\ [][NextConfig]_vars

-----------------------------------------------------------------------------
(* The pure helpers on their own: BscGasPriceProvider::get_optimized_gas_price
   and GasAdjusterFeesOracle::verify_base_fee_not_too_low_on_resend *)

\* largest base fee the price source reports to get_optimized_gas_price
MaxNetworkBaseFee == 6 * Gwei

\* fees handed to verify_base_fee_not_too_low_on_resend, in wei
MaxPreviousFee == 60

MaxFeeToUse == 125

NextBlockMinimalFees == {0, 30, 70}

\* bsc_provider.get_optimized_gas_price() with get_base_fee(0) returning
\* network_base_fee
GetOptimizedGasPrice ==
    /\ pc = "idle"
    /\ \E network_base_fee \in 0..MaxNetworkBaseFee :
         /\ call' = [fn |-> "get_optimized_gas_price",
                     network_base_fee |-> network_base_fee]
         /\ result' = get_optimized_gas_price(network_base_fee)
    /\ pc' = "returned"
    /\ UNCHANGED config_vars

\* self.verify_base_fee_not_too_low_on_resend(..)
VerifyBaseFeeNotTooLowOnResend ==
    /\ pc = "idle"
    /\ \E previous_fee \in 0..MaxPreviousFee, fee_to_use \in 0..MaxFeeToUse,
          next_block_minimal_fee \in NextBlockMinimalFees,
          min_price_bump_multiplier \in {110, 200} :
         /\ call' = [fn |-> "verify_base_fee_not_too_low_on_resend",
                     previous_fee |-> previous_fee,
                     fee_to_use |-> fee_to_use,
                     next_block_minimal_fee |-> next_block_minimal_fee,
                     min_price_bump_multiplier |-> min_price_bump_multiplier]
         /\ result' =
               [kind |-> IF verify_base_fee_not_too_low_on_resend(
                                previous_fee, fee_to_use,
                                next_block_minimal_fee,
                                min_price_bump_multiplier)
                         THEN "Ok" ELSE "TooLow"]
    /\ pc' = "returned"
    /\ UNCHANGED config_vars

NextHelpers ==
    \/ GetOptimizedGasPrice
    \/ VerifyBaseFeeNotTooLowOnResend
    \/ TakeResult

SpecHelpers == InitSingleDeployment /\ [][NextHelpers]_vars

-----------------------------------------------------------------------------
(* The two classifiers *)

\* chain IDs below this bound are all classified
MaxSmallChainId == 150

\* chain IDs handed to the classifiers: the small ones, Holesky, Sepolia and
\* the largest integer the model checker represents, for u64::MAX
DetectChainIds == (0..MaxSmallChainId) \cup {17000, 11155111, 2147483647}

\* detect_network_type(L1ChainId(id)), and detect_network_type_from_env() in
\* the same process
DetectNetworkType ==
    /\ pc = "idle"
    /\ \E id \in DetectChainIds :
         /\ call' = [fn |-> "detect_network_type", chain_id |-> id]
         /\ result' = [network_type |-> detect_network_type(id),
                       from_env |-> detect_network_type_from_env]
    /\ pc' = "returned"
    /\ UNCHANGED config_vars

\* a process with any value of L1_CHAIN_ID, or none
InitAnyChain ==
    /\ env_L1_CHAIN_ID \in DetectChainIds \cup {EnvNotSet}
    /\ chain_id = 56
    /\ max_acceptable_priority_fee_in_gwei = 1 * Gwei
    /\ max_acceptable_base_fee_in_wei = 6 * Gwei
    /\ time_in_mempool_in_l1_blocks_cap = TimeCap
    /\ previous_sent_tx = NoTx
    /\ pc = "idle"
    /\ call = NoCall
    /\ result = NoQuote("none")
    /\ chain_config_file = <<>>

NextDetect ==
    \/ DetectNetworkType
    \/ TakeResult

SpecDetect == InitAnyChain /\ [][NextDetect]_vars

-----------------------------------------------------------------------------
(* NetworkAwareFeesOracle built for a legacy chain *)

\* chain IDs for which create_network_aware_fees_oracle builds a
\* NetworkAwareFeesOracle
LegacyChainIds == {56, 97, 137}

\* ceilings below, at and above the default legacy fees
LegacyMaxBaseFees == {6 * Gwei, 20 * Gwei, 50 * Gwei}

LegacyMaxPriorityFees == {Gwei \div 2, 1 * Gwei, 3 * Gwei}

InitLegacyChain ==
    /\ env_L1_CHAIN_ID \in EnvValues
    /\ chain_id \in LegacyChainIds
    /\ max_acceptable_priority_fee_in_gwei \in LegacyMaxPriorityFees
    /\ max_acceptable_base_fee_in_wei \in LegacyMaxBaseFees
    /\ time_in_mempool_in_l1_blocks_cap = TimeCap
    /\ previous_sent_tx \in TxHistories \cup {NoTx}
    /\ pc = "idle"
    /\ call = NoCall
    /\ result = NoQuote("none")
    /\ chain_config_file = <<>>

NextLegacy ==
    \/ NetworkAwareCalculateFees
    \/ TakeResult

SpecLegacy == InitLegacyChain /\ [][NextLegacy]_vars

-----------------------------------------------------------------------------

(* A resend chain on Bsc class *)

\* calculate_fees for a NonBlob or Blob operation whose previous attempt is
\* the most recent quote of the chain
ResendCalculateFees ==
    /\ pc = "idle"
    /\ \E operator_type \in {"NonBlob", "Blob"}, t \in 0..MaxTimeInMempool :
         \E ga \in GasAdjusterReads(operator_type, previous_sent_tx) :
            /\ call' = [oracle |-> "GasAdjusterFeesOracle",
                        operator_type |-> operator_type,
                        time_in_mempool_in_l1_blocks |-> t,
                        ga |-> ga]
            /\ result' = calculate_fees(previous_sent_tx, t, operator_type, ga)
    /\ pc' = "returned"
    /\ UNCHANGED config_vars

\* the sender takes the result; a returned quote becomes the previous attempt
\* of the next call
RecordAttempt ==
    /\ pc = "returned"
    /\ pc' = "idle"
    /\ previous_sent_tx' =
          IF result.kind = "Ok"
          THEN [base_fee_per_gas |-> result.base_fee_per_gas,
                priority_fee_per_gas |-> result.priority_fee_per_gas,
                blob_base_fee_per_gas |-> result.blob_base_fee_per_gas,
                max_gas_per_pubdata |-> result.max_gas_per_pubdata_price]
          ELSE previous_sent_tx
    /\ call' = NoCall
    /\ result' = NoQuote("none")
    /\ UNCHANGED <<env_L1_CHAIN_ID, chain_id,
                   max_acceptable_priority_fee_in_gwei,
                   max_acceptable_base_fee_in_wei,
                   time_in_mempool_in_l1_blocks_cap, chain_config_file>>

\* a Bsc deployment before the first attempt of an operation
InitResendChain ==
    /\ Init
    /\ env_L1_CHAIN_ID = 56
    /\ chain_id = 56
    /\ previous_sent_tx = NoTx

NextResend ==
    \/ ResendCalculateFees
    \/ RecordAttempt

SpecResend == InitResendChain /\ [][NextResend]_vars

\* the sender keeps calling and keeps taking the results
FairSpecResend == SpecResend /\ WF_vars(NextResend)

-----------------------------------------------------------------------------

(* The price source as a function of the time it is asked about *)

SourceBaseFees == {Gwei \div 2, 2 * Gwei}

SourceBlobFees == {(3 * Gwei) \div 10, (9 * Gwei) \div 10}

\* a getter the path does not call
NotAsked == [time \in 0..MaxTimeInMempool |-> NotRead]

TimedReading(read, values) ==
    IF read THEN [0..MaxTimeInMempool -> values] ELSE {NotAsked}

\* A TxParamsProvider on the standard path: the getters that take
\* time_in_mempool_in_l1_blocks are functions of it, the others are values.
PriceSources(operator_type, previous) ==
    LET no_blob == operator_type = "NonBlob"
        with_blob == operator_type = "Blob"
        gateway == operator_type = "Gateway"
        resend == previous # NoTx
    IN  [get_base_fee : TimedReading(no_blob, SourceBaseFees),
         get_priority_fee : Reading(no_blob, PriorityFees),
         get_next_block_minimal_base_fee :
             Reading(resend, NextBlockMinimalBaseFees),
         get_blob_tx_base_fee : TimedReading(with_blob, SourceBaseFees),
         get_blob_tx_blob_base_fee : TimedReading(with_blob, SourceBlobFees),
         get_blob_tx_priority_fee : Reading(with_blob, PriorityFees),
         get_next_block_minimal_blob_base_fee :
             Reading(resend /\ with_blob, NextBlockMinimalBlobBaseFees),
         gateway_get_base_fee : TimedReading(gateway, SourceBaseFees),
         get_gateway_price_per_pubdata : TimedReading(gateway, PubdataPrices)]

AskedAt(getter, time) == getter[time]

\* what the getters return when asked about asked_time_in_mempool_in_l1_blocks
ReadingsAt(source, asked_time_in_mempool_in_l1_blocks) ==
    [get_base_fee |->
         AskedAt(source.get_base_fee, asked_time_in_mempool_in_l1_blocks),
     get_priority_fee |-> source.get_priority_fee,
     get_next_block_minimal_base_fee |->
         source.get_next_block_minimal_base_fee,
     get_blob_tx_base_fee |->
         AskedAt(source.get_blob_tx_base_fee,
                 asked_time_in_mempool_in_l1_blocks),
     get_blob_tx_blob_base_fee |->
         AskedAt(source.get_blob_tx_blob_base_fee,
                 asked_time_in_mempool_in_l1_blocks),
     get_blob_tx_priority_fee |-> source.get_blob_tx_priority_fee,
     get_next_block_minimal_blob_base_fee |->
         source.get_next_block_minimal_blob_base_fee,
     gateway_get_base_fee |->
         AskedAt(source.gateway_get_base_fee,
                 asked_time_in_mempool_in_l1_blocks),
     get_gateway_price_per_pubdata |->
         AskedAt(source.get_gateway_price_per_pubdata,
                 asked_time_in_mempool_in_l1_blocks),
     bsc_assert_base_fee |-> NotRead,
     bsc_main_base_fee |-> NotRead,
     bsc_check_base_fee |-> NotRead]

\* the readings of a call with the time asked about not capped
GasAdjusterReadsFrom_uncapped(source, time_in_mempool_in_l1_blocks) ==
    ReadingsAt(source, time_in_mempool_in_l1_blocks)

\* the readings of one standard-path call: every path asks the source about
\* capped_time_in_mempool_in_l1_blocks
GasAdjusterReadsFrom(source, time_in_mempool_in_l1_blocks) ==
    LET capped_time_in_mempool_in_l1_blocks ==
            Min(time_in_mempool_in_l1_blocks, time_in_mempool_in_l1_blocks_cap)
    IN  ReadingsAt(source, capped_time_in_mempool_in_l1_blocks)

\* calculate_fees of a GasAdjusterFeesOracle over the given price source
calculate_fees_from(source, previous, time_in_mempool_in_l1_blocks, operator_type) ==
    calculate_fees(previous, time_in_mempool_in_l1_blocks, operator_type,
                   GasAdjusterReadsFrom(source, time_in_mempool_in_l1_blocks))

\* GasAdjusterFeesOracle::calculate_fees on Ethereum class
CalculateFeesFromSource ==
    /\ pc = "idle"
    /\ \E operator_type \in OperatorTypes, t \in 0..MaxTimeInMempool :
         \E source \in PriceSources(operator_type, previous_sent_tx) :
            /\ call' = [oracle |-> "GasAdjusterFeesOracle",
                        operator_type |-> operator_type,
                        time_in_mempool_in_l1_blocks |-> t,
                        ga |-> GasAdjusterReadsFrom(source, t),
                        source |-> source]
            /\ result' = calculate_fees_from(source, previous_sent_tx, t,
                                             operator_type)
    /\ pc' = "returned"
    /\ UNCHANGED config_vars

\* one Ethereum deployment, any previous attempt
InitEthereum ==
    /\ Init
    /\ env_L1_CHAIN_ID = 1
    /\ chain_id = 1
    /\ max_acceptable_priority_fee_in_gwei = 3 * Gwei
    /\ max_acceptable_base_fee_in_wei = 6 * Gwei

NextSource ==
    \/ CalculateFeesFromSource
    \/ TakeResult

SpecSource == InitEthereum /\ [][NextSource]_vars

-----------------------------------------------------------------------------

(* zkstack: applying the BSC optimization to a chain config *)
(* A file is the sequence of its lines.  The template is abridged to its   *)
(* leading blank and comment lines and, per section, the header and the    *)
(* first setting, with {network_type} and {chain_id} filled in.            *)

BSC_OPTIMIZATION_TEMPLATE ==
    << "",
       "# BSC optimization",
       "[eth_sender]",
       "wait_confirmations = 2",
       "[eth_watch]",
       "eth_node_poll_interval = 1500",
       "[state_keeper]",
       "block_commit_deadline_ms = 3000",
       "[api.web3_json_rpc]",
       "max_connections = 1000",
       "[api.web3_json_rpc.tx_sender]",
       "status_poll_interval = 500",
       "# BSC fee optimization",
       "[bsc_fee_optimization]",
       "enabled = true",
       "# BSC network parameters",
       "[bsc_optimizations]",
       "network_type = bsc",
       "chain_id = 56" >>

\* the lines of the model that begin with '[' after trimming
SectionHeaders ==
    {"[eth_sender]", "[eth_watch]", "[state_keeper]", "[api.web3_json_rpc]",
     "[api.web3_json_rpc.tx_sender]", "[bsc_fee_optimization]",
     "[bsc_optimizations]", "[contracts]"}

\* line.trim().starts_with('[')
starts_with_bracket(line) == line \in SectionHeaders

\* line.trim().starts_with("[bsc_optimizations]")
starts_with_bsc_optimizations(line) == line = "[bsc_optimizations]"

\* existing_config.contains("[bsc_optimizations]")
contains_bsc_optimizations(existing_config) ==
    \E i \in 1..Len(existing_config) :
        starts_with_bsc_optimizations(existing_config[i])

RECURSIVE replace_loop(_, _, _)
\* the for loop of replace_bsc_optimization_section from line i on: the lines
\* pushed to result
replace_loop(lines, i, in_bsc_section) ==
    IF i > Len(lines) THEN <<>>
    ELSE IF starts_with_bsc_optimizations(lines[i])
    THEN replace_loop(lines, i + 1, TRUE)
    ELSE LET still_in_bsc_section ==
                 in_bsc_section /\ ~starts_with_bracket(lines[i])
         IN  (IF still_in_bsc_section THEN <<>> ELSE <<lines[i]>>)
                \o replace_loop(lines, i + 1, still_in_bsc_section)

replace_bsc_optimization_section(existing_config, new_optimization) ==
    LET bsc_section_found == contains_bsc_optimizations(existing_config)
    IN  replace_loop(existing_config, 1, FALSE)
           \o (IF bsc_section_found
               THEN <<"", "# BSC optimization (updated)">> \o new_optimization
               ELSE <<>>)

\* updated_config of apply_bsc_optimizations
apply_bsc_optimizations(existing_config, optimization_config) ==
    IF contains_bsc_optimizations(existing_config)
    THEN replace_bsc_optimization_section(existing_config, optimization_config)
    ELSE existing_config \o <<"", "# BSC optimization">> \o optimization_config

\* longest chain config before the first run
MaxConfigLines == 3

\* no run is started on a file longer than this
MaxConfigFileLines == 60

ConfigLines ==
    {"[eth_sender]", "[contracts]", "wait_confirmations = 1",
     "[bsc_optimizations]"}

RECURSIVE SeqsUpTo(_, _)
SeqsUpTo(S, n) ==
    IF n = 0 THEN {<<>>}
    ELSE LET shorter == SeqsUpTo(S, n - 1)
         IN  shorter \cup {Append(s, x) : s \in shorter, x \in S}

\* apply_bsc_optimizations(shell, chain_name, optimization_config) on an
\* existing chain config
ApplyBscOptimizations ==
    /\ pc = "idle"
    /\ Len(chain_config_file) <= MaxConfigFileLines
    /\ call' = [fn |-> "apply_bsc_optimizations",
                existing_config |-> chain_config_file]
    /\ chain_config_file' =
          apply_bsc_optimizations(chain_config_file, BSC_OPTIMIZATION_TEMPLATE)
    /\ result' = [kind |-> "Ok"]
    /\ pc' = "returned"
    /\ UNCHANGED <<env_L1_CHAIN_ID, chain_id,
                   max_acceptable_priority_fee_in_gwei,
                   max_acceptable_base_fee_in_wei,
                   time_in_mempool_in_l1_blocks_cap, previous_sent_tx>>

\* a BSC chain whose config has not been optimized by the tool yet
InitChainConfig ==
    /\ env_L1_CHAIN_ID = 56
    /\ chain_id = 56
    /\ max_acceptable_priority_fee_in_gwei = 1 * Gwei
    /\ max_acceptable_base_fee_in_wei = 6 * Gwei
    /\ time_in_mempool_in_l1_blocks_cap = TimeCap
    /\ previous_sent_tx = NoTx
    /\ pc = "idle"
    /\ call = NoCall
    /\ result = NoQuote("none")
    /\ chain_config_file \in SeqsUpTo(ConfigLines, MaxConfigLines)

NextChainConfig ==
    \/ ApplyBscOptimizations
    \/ TakeResult

SpecChainConfig == InitChainConfig /\ [][NextChainConfig]_vars

-----------------------------------------------------------------------------

(* Properties *)

Returned == pc = "returned"

\* GasAdjusterFeesOracle::calculate_fees has run: called directly, or as the
\* inner oracle of a NetworkAwareFeesOracle built for an Ethereum chain id
GasAdjusterRan ==
    /\ Returned
    /\ \/ call.oracle = "GasAdjusterFeesOracle"
       \/ /\ call.oracle = "NetworkAwareFeesOracle"
          /\ detect_network_type(chain_id) = "Ethereum"

NetworkAwareRan ==
    /\ Returned
    /\ call.oracle = "NetworkAwareFeesOracle"
    /\ detect_network_type(chain_id) # "Ethereum"

NetworkClass == detect_network_type_from_env

Resend == previous_sent_tx # NoTx

IsQuote == result.kind = "Ok"

\* C1: whenever GasAdjusterFeesOracle.calculate_fees returns a quote, its
\* base_fee_per_gas is at most max_acceptable_base_fee_in_wei, for every
\* network class, operator kind, previous attempt and reading.
C1_BaseFeeIsGate ==
    (GasAdjusterRan /\ IsQuote)
        => result.base_fee_per_gas <= max_acceptable_base_fee_in_wei

C3_ReplacementSupersedes ==
    (GasAdjusterRan /\ IsQuote /\ Resend)
        => result.base_fee_per_gas >= previous_sent_tx.base_fee_per_gas

\* every base-fee reading the call made returned 0
BaseFeeReadsZero ==
    /\ call.ga.get_base_fee \in {0, NotRead}
    /\ call.ga.get_blob_tx_base_fee \in {0, NotRead}
    /\ call.ga.gateway_get_base_fee \in {0, NotRead}
    /\ call.ga.bsc_assert_base_fee \in {0, NotRead}
    /\ call.ga.bsc_main_base_fee \in {0, NotRead}
    /\ call.ga.bsc_check_base_fee \in {0, NotRead}

\* C4: with the base fee read as 0, calculate_fees aborts under Ethereum
\* classification for every operator kind, and under Bsc classification
\* returns a quote with a non-zero base fee, or the base-fee-ceiling error
\* when the substituted value is over the ceiling.
C4_ZeroFeeDivergence ==
    (GasAdjusterRan /\ BaseFeeReadsZero)
        => /\ NetworkClass = "Ethereum" => result.kind = "PanicZeroFee"
           /\ NetworkClass = "Bsc" =>
                \/ IsQuote /\ result.base_fee_per_gas > 0
                \/ result.kind = "ExceedMaxBaseFee"

\* C5: on Ethereum class, NonBlob and Blob calls whose priority fee reads as
\* 0 never return a quote.
C5_ZeroPriorityFeeFails ==
    (/\ GasAdjusterRan
     /\ NetworkClass = "Ethereum"
     /\ \/ call.operator_type = "NonBlob" /\ call.ga.get_priority_fee = 0
        \/ call.operator_type = "Blob" /\ call.ga.get_blob_tx_priority_fee = 0)
        => ~IsQuote

-----------------------------------------------------------------------------
(* Resend on the standard path (calculate_fees_no_blob_sidecar,            *)
(* calculate_fees_with_blob_sidecar, calculate_fees_for_gateway_tx)        *)

\* the base fee the standard path read for this operator kind
FreshBaseFee ==
    CASE call.operator_type = "NonBlob" -> call.ga.get_base_fee
      [] call.operator_type = "Blob"    -> call.ga.get_blob_tx_base_fee
      [] OTHER                          -> call.ga.gateway_get_base_fee

\* MIN_PRICE_BUMP_MULTIPLIER of the operator kind, in percent
BumpPercent == IF call.operator_type = "Blob" THEN 200 ELSE 110

\* a resend on Ethereum class got as far as the not-too-low check: no fee
\* read as zero and the fresh base fee passed the ceiling
EthereumResendChecked ==
    /\ GasAdjusterRan /\ Resend
    /\ NetworkClass = "Ethereum"
    /\ FreshBaseFee > 0
    /\ FreshBaseFee <= max_acceptable_base_fee_in_wei
    /\ call.operator_type = "Blob" => call.ga.get_blob_tx_blob_base_fee > 0

BaseFeeTooLow ==
    ~verify_base_fee_not_too_low_on_resend(
         previous_sent_tx.base_fee_per_gas, FreshBaseFee,
         call.ga.get_next_block_minimal_base_fee, BumpPercent)

BlobFeeTooLow ==
    /\ call.operator_type = "Blob"
    /\ ~verify_base_fee_not_too_low_on_resend(
           IF previous_sent_tx.blob_base_fee_per_gas = None THEN 0
           ELSE previous_sent_tx.blob_base_fee_per_gas,
           call.ga.get_blob_tx_blob_base_fee,
           call.ga.get_next_block_minimal_blob_base_fee, 200)

\* C6 as claimed: on Ethereum class, whenever a freshly read component fails
\* the not-too-low check on resend, calculate_fees returns a quote in which
\* every failing component is previous * multiplier (2x Blob, 1.10x NonBlob
\* and Gateway), for every combination of failing components.
C6_ForwardProgressOnResend ==
    (EthereumResendChecked /\ (BaseFeeTooLow \/ BlobFeeTooLow))
        => /\ IsQuote
           /\ BaseFeeTooLow =>
                result.base_fee_per_gas =
                    F64MulCeil(previous_sent_tx.base_fee_per_gas, BumpPercent,
                               LiteralSigma25(BumpPercent))
           /\ BlobFeeTooLow =>
                result.blob_base_fee_per_gas =
                    previous_sent_tx.blob_base_fee_per_gas * 2

\* C6 amended: on Ethereum class the bump replaces the error only for the Blob
\* operator with exactly one failing component: then no error value is
\* returned and a returned quote carries 2 x previous in the failing component
\* and the fresh reading in the other.  With both components failing for
\* Blob, and with the base fee failing for NonBlob or Gateway, the call
\* returns the fee-too-low error.
C6_BumpOnlyForSingleBlobFailure ==
    EthereumResendChecked
        => /\ (call.operator_type = "Blob" /\ BaseFeeTooLow /\ ~BlobFeeTooLow)
                => /\ result.kind \notin ErrorKinds
                   /\ IsQuote =>
                        /\ result.base_fee_per_gas =
                               previous_sent_tx.base_fee_per_gas * 2
                        /\ result.blob_base_fee_per_gas =
                               call.ga.get_blob_tx_blob_base_fee
           /\ (call.operator_type = "Blob" /\ ~BaseFeeTooLow /\ BlobFeeTooLow)
                => /\ result.kind \notin ErrorKinds
                   /\ IsQuote =>
                        /\ result.blob_base_fee_per_gas =
                               previous_sent_tx.blob_base_fee_per_gas * 2
                        /\ result.base_fee_per_gas = FreshBaseFee
           /\ (call.operator_type = "Blob" /\ BaseFeeTooLow /\ BlobFeeTooLow)
                => result.kind = "TooLow"
           /\ (call.operator_type # "Blob" /\ BaseFeeTooLow)
                => result.kind = "TooLow"

\* C6 witness: a Blob resend on Ethereum whose base fee alone failed the check
\* and was returned as 2 x previous.
C6_Witness ==
    /\ EthereumResendChecked
    /\ call.operator_type = "Blob"
    /\ BaseFeeTooLow /\ ~BlobFeeTooLow
    /\ IsQuote
    /\ result.base_fee_per_gas = previous_sent_tx.base_fee_per_gas * 2
    /\ result.base_fee_per_gas > FreshBaseFee

\* C7: on Ethereum class every quote returned on resend has base fee
\* >= ceil(1.10 * previous base fee) for NonBlob, and for Blob base fee
\* >= 2 * previous base fee and blob base fee >= 2 * previous blob base fee
\* when the previous attempt carries one.
C7_MonotonicResendBump ==
    (/\ GasAdjusterRan /\ Resend /\ IsQuote
     /\ NetworkClass = "Ethereum"
     /\ previous_sent_tx.base_fee_per_gas > 0)
        => /\ call.operator_type = "NonBlob" =>
                10 * result.base_fee_per_gas
                    >= 11 * previous_sent_tx.base_fee_per_gas
           /\ call.operator_type = "Blob" =>
                /\ result.base_fee_per_gas
                       >= 2 * previous_sent_tx.base_fee_per_gas
                /\ previous_sent_tx.blob_base_fee_per_gas # None =>
                       result.blob_base_fee_per_gas
                           >= 2 * previous_sent_tx.blob_base_fee_per_gas

\* C7 witness: a Blob resend on Ethereum whose blob base fee was raised to
\* 2 x previous, above the fresh reading.
C7_Witness ==
    /\ GasAdjusterRan /\ Resend /\ IsQuote
    /\ NetworkClass = "Ethereum"
    /\ call.operator_type = "Blob"
    /\ previous_sent_tx.blob_base_fee_per_gas # None
    /\ result.blob_base_fee_per_gas = 2 * previous_sent_tx.blob_base_fee_per_gas
    /\ result.blob_base_fee_per_gas > call.ga.get_blob_tx_blob_base_fee

\* C8: on Ethereum class every quote returned on resend has base fee
\* >= get_next_block_minimal_base_fee() and, for Blob, blob base fee
\* >= get_next_block_minimal_blob_base_fee(), bumped components included.
C8_ResendOutbidsNetworkMinimum ==
    (/\ GasAdjusterRan /\ Resend /\ IsQuote
     /\ NetworkClass = "Ethereum")
        => /\ result.base_fee_per_gas
                  >= call.ga.get_next_block_minimal_base_fee
           /\ call.operator_type = "Blob" =>
                  result.blob_base_fee_per_gas
                      >= call.ga.get_next_block_minimal_blob_base_fee

-----------------------------------------------------------------------------
(* The relaxed path (calculate_bsc_optimized_fees, calculate_bsc_fees) *)

\* calculate_bsc_optimized_fees has run
BscOptimizedRan ==
    /\ GasAdjusterRan
    /\ NetworkClass = "Bsc"
    /\ call.operator_type \in {"NonBlob", "Blob"}

\* NetworkAwareFeesOracle::calculate_bsc_fees has run for a Bsc chain id
BscLegacyRan ==
    /\ NetworkAwareRan
    /\ detect_network_type(chain_id) = "Bsc"

\* the (base, priority) pair the relaxed path starts from
FreshBscFees ==
    IF BscLegacyRan
    THEN [base_fee |-> BSC_DEFAULT_GAS_PRICE,
          priority_fee |-> BSC_DEFAULT_PRIORITY_FEE]
    ELSE [base_fee |-> get_optimized_gas_price(call.ga.bsc_main_base_fee).base_fee,
          priority_fee |->
              get_optimized_gas_price(call.ga.bsc_main_base_fee).priority_fee]

\* percent by which the relaxed path raises a fee per block in the mempool
DecayPercentPerBlock == IF BscLegacyRan THEN 10 ELSE 15

\* fee * (1 + blocks * DecayPercentPerBlock / 100), rounded down
Decayed(fee) ==
    (fee * (100 + call.time_in_mempool_in_l1_blocks * DecayPercentPerBlock))
        \div 100

ComputedPriorityFee ==
    CASE BscOptimizedRan ->
           LET bumped == IF Resend
                         THEN Max(FreshBscFees.priority_fee,
                                  2 * previous_sent_tx.priority_fee_per_gas)
                         ELSE FreshBscFees.priority_fee
           IN  IF call.time_in_mempool_in_l1_blocks > 0
               THEN F64MulTrunc(bumped,
                        100 + 15 * call.time_in_mempool_in_l1_blocks,
                        TimeMultiplierSigma25(call.time_in_mempool_in_l1_blocks))
               ELSE bumped
      [] call.operator_type = "NonBlob" ->
           IF Resend
           THEN Max(call.ga.get_priority_fee,
                    F64MulCeil(previous_sent_tx.priority_fee_per_gas, 110,
                               LiteralSigma25(110)))
           ELSE call.ga.get_priority_fee
      [] call.operator_type = "Blob" ->
           IF Resend
           THEN Max(call.ga.get_blob_tx_priority_fee,
                    2 * previous_sent_tx.priority_fee_per_gas)
           ELSE call.ga.get_blob_tx_priority_fee
      [] OTHER -> 0

PriorityFeeOverCeiling ==
    /\ GasAdjusterRan
    /\ NetworkClass \in {"Bsc", "Other"}
    /\ call.operator_type \in {"NonBlob", "Blob"}
    /\ ComputedPriorityFee > max_acceptable_priority_fee_in_gwei

\* C10 as claimed: when the priority fee computed for a Bsc or Other class
\* call exceeds the ceiling, the call does not fail for it and a returned
\* quote has priority_fee_per_gas equal to the ceiling.
C10_PriorityFeeClampedToCeiling ==
    PriorityFeeOverCeiling
        => /\ result.kind # "PanicPriorityFee"
           /\ IsQuote =>
                result.priority_fee_per_gas = max_acceptable_priority_fee_in_gwei

\* C10 amended: when the priority fee computed for a Bsc or Other class call
\* exceeds the ceiling, the call does not fail for it and a returned quote has
\* a priority fee <= the ceiling that replaces the computed one: on Bsc
\* min(priority fee of a fresh get_optimized_gas_price, ceiling), on Other
\* min(ceiling, 2 Gwei).
C10_PriorityFeeReplacedUnderCeiling ==
    PriorityFeeOverCeiling
        => /\ result.kind # "PanicPriorityFee"
           /\ IsQuote =>
                /\ result.priority_fee_per_gas
                       <= max_acceptable_priority_fee_in_gwei
                /\ NetworkClass = "Bsc" =>
                       result.priority_fee_per_gas =
                           Min(get_optimized_gas_price(
                                   call.ga.bsc_check_base_fee).priority_fee,
                               max_acceptable_priority_fee_in_gwei)
                /\ NetworkClass = "Other" =>
                       result.priority_fee_per_gas =
                           Min(max_acceptable_priority_fee_in_gwei, 2 * Gwei)

\* C10 witness: a Bsc quote whose computed priority fee was over the ceiling
\* and whose returned priority fee is below the ceiling.
C10_Witness ==
    /\ PriorityFeeOverCeiling
    /\ NetworkClass = "Bsc"
    /\ IsQuote
    /\ result.priority_fee_per_gas < max_acceptable_priority_fee_in_gwei

\* C11: on Bsc or Other class, for every operator kind and every input,
\* GasAdjusterFeesOracle.calculate_fees does not abort and returns either a
\* quote or the base-fee-ceiling error, never the fee-too-low error.
C11_RelaxedNeverTooLow ==
    (GasAdjusterRan /\ NetworkClass \in {"Bsc", "Other"})
        => result.kind \in {"Ok", "ExceedMaxBaseFee"}

\* the same call was made again on the same GasAdjusterFeesOracle after
\* L1_CHAIN_ID moved from a Bsc chain id to an Other chain id
BscThenOther ==
    /\ CalculateFeesAfterSetEnv
    /\ detect_network_type_from_env = "Bsc"
    /\ detect_network_type_from_env' = "Other"

\* C12: for NonBlob and Blob operators, GasAdjusterFeesOracle.calculate_fees
\* under class Other returns the same quote or the same error as under class
\* Bsc for the same previous attempt, time in the mempool, configuration and
\* price-source readings.
C12_OtherSameAsBsc ==
    [][(BscThenOther /\ call.operator_type \in {"NonBlob", "Blob"})
           => result' = result]_vars

-----------------------------------------------------------------------------
(* Classification and price readings within one call *)

\* C15: for a NetworkAwareFeesOracle built for an Ethereum-class chain id,
\* every class-dependent decision of a calculate_fees call is the Ethereum
\* one, whatever L1_CHAIN_ID holds: the standard path is selected (the
\* BscGasPriceProvider is never consulted), a base fee read as 0 aborts the
\* call, and a priority fee over the ceiling yields no quote.
C15_ClassOfChainId ==
    (/\ Returned
     /\ call.oracle = "NetworkAwareFeesOracle"
     /\ detect_network_type(chain_id) = "Ethereum")
        => /\ call.ga.bsc_main_base_fee = NotRead
           /\ FreshBaseFee = 0 => result.kind = "PanicZeroFee"
           /\ (/\ call.operator_type \in {"NonBlob", "Blob"}
               /\ ComputedPriorityFee > max_acceptable_priority_fee_in_gwei)
                  => ~IsQuote

\* the readings of the call with every get_base_fee(0) of the
\* BscGasPriceProvider returning the one value f
SingleSnapshot(f) ==
    [call.ga EXCEPT !.bsc_main_base_fee = f, !.bsc_check_base_fee = f]

\* C16: on Bsc class (NonBlob or Blob) a returned quote is the quote of a
\* single reading of the price source: some base fee f exists for which both
\* the base fee and the priority fee of the quote are the ones computed when
\* every reading of the call returns f.
C16_SingleSnapshot ==
    (BscOptimizedRan /\ IsQuote)
        => \E f \in BaseFees :
              result = calculate_fees(previous_sent_tx,
                                      call.time_in_mempool_in_l1_blocks,
                                      call.operator_type, SingleSnapshot(f))

\* an Ethereum-class NonBlob or Blob call got as far as check_priority_fee:
\* no fee read as zero, the base fee passed the ceiling, and on resend the
\* not-too-low check did not end the call
ReachedPriorityCheck ==
    /\ GasAdjusterRan
    /\ NetworkClass = "Ethereum"
    /\ call.operator_type \in {"NonBlob", "Blob"}
    /\ FreshBaseFee > 0
    /\ FreshBaseFee <= max_acceptable_base_fee_in_wei
    /\ call.operator_type = "Blob" => call.ga.get_blob_tx_blob_base_fee > 0
    /\ Resend =>
          /\ call.operator_type = "NonBlob" => ~BaseFeeTooLow
          /\ call.operator_type = "Blob" =>
                /\ ~(BaseFeeTooLow /\ BlobFeeTooLow)
                /\ ~(BlobFeeTooLow
                       /\ previous_sent_tx.blob_base_fee_per_gas = None)

\* C18: on Ethereum class with NonBlob or Blob operator, a priority fee to be
\* used (fresh reading or resend-bumped value) over the ceiling never yields
\* a quote, and the call that gets to the priority check aborts there.
C18_PriorityOverCeilingIsFatal ==
    (/\ GasAdjusterRan
     /\ NetworkClass = "Ethereum"
     /\ call.operator_type \in {"NonBlob", "Blob"}
     /\ ComputedPriorityFee > max_acceptable_priority_fee_in_gwei)
        => /\ ~IsQuote
           /\ ReachedPriorityCheck => result.kind = "PanicPriorityFee"

\* C18 witness: an Ethereum resend whose fresh priority fee is under the
\* ceiling and whose bumped priority fee is over it aborts in
\* check_priority_fee.
C18_Witness ==
    /\ ReachedPriorityCheck /\ Resend
    /\ call.operator_type = "NonBlob"
    /\ call.ga.get_priority_fee <= max_acceptable_priority_fee_in_gwei
    /\ ComputedPriorityFee > max_acceptable_priority_fee_in_gwei
    /\ result.kind = "PanicPriorityFee"

-----------------------------------------------------------------------------
(* BscFeeOptimizationConfig *)

\* the fee-bound invariants of a configuration, all strict
FeeBoundsHold(config) ==
    /\ config.min_base_fee < config.target_base_fee
    /\ config.target_base_fee < config.max_base_fee
    /\ config.min_priority_fee < config.max_priority_fee
    /\ config.congestion_threshold > config.target_base_fee

Validated == pc = "returned" /\ call.fn = "validate"

\* C13: validate returns Ok exactly when min_base_fee < target_base_fee <
\* max_base_fee, min_priority_fee < max_priority_fee and congestion_threshold
\* > target_base_fee (all strict), and an error for every other
\* configuration, target_base_fee equal to min_base_fee or max_base_fee
\* included.
C13_ValidateIsStrict ==
    Validated => (result.kind = "Ok" <=> FeeBoundsHold(call.config))

\* C14: from_env never hands back a configuration that violates the
\* fee-bound invariants, for every combination of the BSC_* variables.
C14_FromEnvRejectsInvalid ==
    (pc = "loaded" /\ call.fn = "from_env") => FeeBoundsHold(result.config)

-----------------------------------------------------------------------------
(* The pure helpers *)

OptimizedGasPriceReturned ==
    pc = "returned" /\ call.fn = "get_optimized_gas_price"

\* C17: for every base fee read from the price source, the base fee returned
\* by get_optimized_gas_price is <= max_gas_price (5 Gwei), in every
\* congestion tier, Congested with its safety margin included.
C17_BoostedFeeUnderCap ==
    OptimizedGasPriceReturned => result.base_fee <= max_gas_price

Verified ==
    pc = "returned" /\ call.fn = "verify_base_fee_not_too_low_on_resend"

\* ceil(previous_fee * multiplier) for the multiplier given in percent
CeilOfProduct(previous_fee, percent) ==
    (previous_fee * percent + 99) \div 100

\* C19: verify_base_fee_not_too_low_on_resend returns Ok if and only if
\* fee_to_use >= next_block_minimal_fee and fee_to_use >=
\* ceil(previous_fee * multiplier), for multiplier 1.10 and 2.00.
C19_VerifyIff ==
    Verified
        => (result.kind = "Ok"
              <=> /\ call.fee_to_use >= call.next_block_minimal_fee
                  /\ call.fee_to_use >=
                         CeilOfProduct(call.previous_fee,
                                       call.min_price_bump_multiplier))

\* C20: with target T = target_gas_price and threshold C =
\* congestion_threshold, an observed base fee f is classified Low when
\* f <= T, Normal when T < f <= C and Congested when f > C; a base fee read
\* as 0 is replaced by T and classified Low.
C20_CongestionTiering ==
    OptimizedGasPriceReturned
        => LET f == call.network_base_fee
           IN  /\ f <= target_gas_price => result.network_status = "Low"
               /\ (target_gas_price < f /\ f <= congestion_threshold)
                      => result.network_status = "Normal"
               /\ f > congestion_threshold
                      => result.network_status = "Congested"

\* C20 witness: the base fee read is exactly the congestion threshold and is
\* classified Normal.
C20_Witness ==
    /\ OptimizedGasPriceReturned
    /\ call.network_base_fee = congestion_threshold
    /\ result.network_status = "Normal"

\* C21: get_optimized_gas_price returns (min_gas_price, fast_priority_fee) in
\* tier Low, (target_gas_price, fast_priority_fee) in tier Normal, and in
\* tier Congested base = min(floor(1.5 * f), max_gas_price) raised by
\* safety_margin_percent with priority = 2 * fast_priority_fee; the margin is
\* applied in tier Congested only.
C21_FeeSelectionPerTier ==
    OptimizedGasPriceReturned
        => LET f == call.network_base_fee
           IN  /\ result.network_status = "Low"
                      => /\ result.base_fee = min_gas_price
                         /\ result.priority_fee = fast_priority_fee
               /\ result.network_status = "Normal"
                      => /\ result.base_fee = target_gas_price
                         /\ result.priority_fee = fast_priority_fee
               /\ result.network_status = "Congested"
                      => /\ result.base_fee =
                                (Min((f * 150) \div 100, max_gas_price)
                                     * (100 + safety_margin_percent)) \div 100
                         /\ result.priority_fee = 2 * fast_priority_fee

\* C21 witness: a Congested reading whose boosted fee is under max_gas_price
\* and whose returned base fee carries the safety margin on top of it.
C21_Witness ==
    /\ OptimizedGasPriceReturned
    /\ result.network_status = "Congested"
    /\ (call.network_base_fee * 150) \div 100 < max_gas_price
    /\ result.base_fee > (call.network_base_fee * 150) \div 100
    /\ result.priority_fee = 2 * fast_priority_fee

-----------------------------------------------------------------------------
(* Time in the mempool *)

\* the result of the same call (same previous attempt, operator kind and
\* readings) at time_in_mempool_in_l1_blocks = t
ResultAt(t) ==
    calculate_fees(previous_sent_tx, t, call.operator_type, call.ga)

\* fee * (1 + 0.15 * n) truncated, n the time in the mempool of the call
TimeDecayed(fee) ==
    (fee * (100 + 15 * call.time_in_mempool_in_l1_blocks)) \div 100

\* C22: on Bsc class (NonBlob/Blob), when the call at time n and the same
\* call at time 0 both return a quote, the base fee at n is the base fee at 0
\* times (1 + 0.15 * n), truncated, or one unit below it (the rounding of
\* the f64 product); likewise the priority fee unless the priority ceiling is
\* hit.  n is not limited by time_in_mempool_in_l1_blocks_cap.
C22_BscTimeDecay ==
    (BscOptimizedRan /\ IsQuote /\ ResultAt(0).kind = "Ok")
        => /\ result.base_fee_per_gas
                  \in {TimeDecayed(ResultAt(0).base_fee_per_gas) - 1,
                       TimeDecayed(ResultAt(0).base_fee_per_gas)}
           /\ ComputedPriorityFee <= max_acceptable_priority_fee_in_gwei
                  => result.priority_fee_per_gas
                        \in {TimeDecayed(ResultAt(0).priority_fee_per_gas) - 1,
                             TimeDecayed(ResultAt(0).priority_fee_per_gas)}

\* C22 witness: a Bsc first send after 2 blocks in the mempool, above the cap
\* of 1, with 1 Gwei at time 0 quoted as 1.3 Gwei.
C22_Witness ==
    /\ BscOptimizedRan /\ IsQuote /\ ~Resend
    /\ call.time_in_mempool_in_l1_blocks = 2
    /\ call.time_in_mempool_in_l1_blocks > time_in_mempool_in_l1_blocks_cap
    /\ ResultAt(0).kind = "Ok"
    /\ ResultAt(0).base_fee_per_gas = 1 * Gwei
    /\ result.base_fee_per_gas = (13 * Gwei) \div 10

-----------------------------------------------------------------------------
(* Gateway quotes *)

GatewayQuote ==
    GasAdjusterRan /\ call.operator_type = "Gateway" /\ IsQuote

\* the pubdata price the price source returned to this call
FreshPubdataPrice == call.ga.get_gateway_price_per_pubdata

\* C23: a Gateway quote of GasAdjusterFeesOracle has max_gas_per_pubdata_price
\* present and blob_base_fee_per_gas absent, in every network class; on a
\* resend whose previous attempt has pubdata price p it is
\* max(fresh, ceil(1.10 * p)), and with no previous attempt or no previous
\* pubdata price it is exactly the fresh reading.
C23_GatewayPubdataPrice ==
    GatewayQuote
        => /\ result.max_gas_per_pubdata_price # None
           /\ result.blob_base_fee_per_gas = None
           /\ result.max_gas_per_pubdata_price
                 = IF Resend /\ previous_sent_tx.max_gas_per_pubdata # None
                   THEN Max(FreshPubdataPrice,
                            CeilOfProduct(previous_sent_tx.max_gas_per_pubdata,
                                          110))
                   ELSE FreshPubdataPrice

-----------------------------------------------------------------------------
(* Classification *)

DetectReturned ==
    Returned /\ call.fn = "detect_network_type"

\* C24: detect_network_type returns exactly one of Ethereum, Bsc and Other for
\* every chain ID: Ethereum exactly for 1, 5 and 11155111, Bsc exactly for 56
\* and 97, Other for every other ID; and when L1_CHAIN_ID holds that chain ID,
\* detect_network_type_from_env returns the same class.
C24_ClassificationTotal ==
    DetectReturned
        => /\ result.network_type \in {"Ethereum", "Bsc", "Other"}
           /\ result.network_type = "Ethereum"
                 <=> call.chain_id \in {1, 5, 11155111}
           /\ result.network_type = "Bsc" <=> call.chain_id \in {56, 97}
           /\ env_L1_CHAIN_ID = call.chain_id
                 => result.from_env = result.network_type

\* C24 witness: the BSC testnet ID, classified Bsc by both classifiers.
C24_Witness ==
    /\ DetectReturned
    /\ call.chain_id = 97
    /\ env_L1_CHAIN_ID = 97
    /\ result.network_type = "Bsc"
    /\ result.from_env = "Bsc"

-----------------------------------------------------------------------------
(* NetworkAwareFeesOracle, first send *)

\* C25: a NetworkAwareFeesOracle built for a Bsc or Other chain ID, called
\* with no previous attempt and time in the mempool 0, returns base fee
\* 20 Gwei and priority fee 1 Gwei (the priority ceiling if that is lower),
\* no blob base fee and no pubdata price, for every operator kind, provided
\* 20 Gwei does not exceed the base-fee ceiling.
C25_LegacyFirstSend ==
    ( /\ NetworkAwareRan
      /\ ~Resend
      /\ call.time_in_mempool_in_l1_blocks = 0
      /\ 20 * Gwei <= max_acceptable_base_fee_in_wei )
        => result = Quote(20 * Gwei,
                          Min(1 * Gwei, max_acceptable_priority_fee_in_gwei),
                          None, None)

\* C25 witness: a Gateway first send on an Other chain whose priority ceiling
\* is below 1 Gwei.
C25_Witness ==
    /\ NetworkAwareRan
    /\ ~Resend
    /\ call.time_in_mempool_in_l1_blocks = 0
    /\ call.operator_type = "Gateway"
    /\ chain_id = 137
    /\ max_acceptable_base_fee_in_wei = 20 * Gwei
    /\ max_acceptable_priority_fee_in_gwei < 1 * Gwei
    /\ IsQuote
    /\ result.base_fee_per_gas = 20 * Gwei
    /\ result.priority_fee_per_gas = max_acceptable_priority_fee_in_gwei

-----------------------------------------------------------------------------
(* Blob resend after an attempt without a blob fee *)

\* C26: a Blob call on the standard path (class Ethereum or Other) whose
\* previous attempt carries no blob_base_fee_per_gas returns a quote or an
\* error value; it never aborts while computing the bumped blob fee.
C26_NoAbortOnMissingBlobFee ==
    ( /\ GasAdjusterRan
      /\ NetworkClass \in {"Ethereum", "Other"}
      /\ call.operator_type = "Blob"
      /\ Resend
      /\ previous_sent_tx.blob_base_fee_per_gas = None )
        => result.kind # "PanicUnwrapNone"

-----------------------------------------------------------------------------
(* Resend chains *)

\* C27: in a chain of Bsc NonBlob/Blob calls where each call's previous
\* attempt is the most recent returned quote, every quote after the first has
\* a base fee of at least twice the previous quote's and at most
\* max_acceptable_base_fee_in_wei, and from some point on every call fails
\* with ExceedMaxBaseFee.
C27_ResendChainsEnd ==
    /\ []((Returned /\ IsQuote)
            => /\ result.base_fee_per_gas <= max_acceptable_base_fee_in_wei
               /\ Resend => result.base_fee_per_gas
                               >= 2 * previous_sent_tx.base_fee_per_gas)
    /\ <>[](Returned => result.kind = "ExceedMaxBaseFee")

\* C27 witness: after at least two quotes, the second at least twice the
\* first, a call fails with ExceedMaxBaseFee.
C27_Witness ==
    /\ Returned
    /\ Resend
    /\ previous_sent_tx.base_fee_per_gas >= 2 * min_gas_price
    /\ 2 * previous_sent_tx.base_fee_per_gas > max_acceptable_base_fee_in_wei
    /\ result.kind = "ExceedMaxBaseFee"

-----------------------------------------------------------------------------
(* Time cap *)

CalledFromSource ==
    GasAdjusterRan /\ "source" \in DOMAIN call

\* C28: on Ethereum class, for every operator kind, a call with
\* time_in_mempool_in_l1_blocks >= time_in_mempool_in_l1_blocks_cap returns
\* what the call with time_in_mempool_in_l1_blocks = cap returns over the same
\* price source and the same previous attempt.
C28_TimeCap ==
    ( /\ CalledFromSource
      /\ NetworkClass = "Ethereum"
      /\ call.time_in_mempool_in_l1_blocks >= time_in_mempool_in_l1_blocks_cap )
        => result = calculate_fees_from(call.source, previous_sent_tx,
                                        time_in_mempool_in_l1_blocks_cap,
                                        call.operator_type)

\* C28 witness: a quote for a call above the cap over a source whose base fee
\* at the asked time differs from the one at the cap.
C28_Witness ==
    /\ CalledFromSource
    /\ NetworkClass = "Ethereum"
    /\ call.operator_type = "NonBlob"
    /\ call.time_in_mempool_in_l1_blocks > time_in_mempool_in_l1_blocks_cap
    /\ call.source.get_base_fee[call.time_in_mempool_in_l1_blocks]
          # call.source.get_base_fee[time_in_mempool_in_l1_blocks_cap]
    /\ IsQuote
    /\ result.base_fee_per_gas
          = call.source.get_base_fee[time_in_mempool_in_l1_blocks_cap]

-----------------------------------------------------------------------------
(* The oracle's parameters and the configuration type *)

\* C29: the parameters get_optimized_gas_price computes with (minimum,
\* maximum and target base fee, fast priority fee, congestion threshold,
\* safety-margin percent) equal the corresponding values of
\* BscFeeOptimizationConfig::default().
C29_SamePolicy ==
    OptimizedGasPriceReturned
        => /\ min_gas_price = BscFeeOptimizationConfig_default.min_base_fee
           /\ max_gas_price = BscFeeOptimizationConfig_default.max_base_fee
           /\ target_gas_price
                 = BscFeeOptimizationConfig_default.target_base_fee
           /\ fast_priority_fee
                 = BscFeeOptimizationConfig_default.fast_priority_fee
           /\ congestion_threshold
                 = BscFeeOptimizationConfig_default.congestion_threshold
           /\ safety_margin_percent
                 = BscFeeOptimizationConfig_default.safety_margin_percent

-----------------------------------------------------------------------------
(* Applying the BSC optimization again *)

ApplyReturned ==
    Returned /\ call.fn = "apply_bsc_optimizations"

TemplateHeaders ==
    {"[eth_sender]", "[eth_watch]", "[state_keeper]", "[api.web3_json_rpc]",
     "[api.web3_json_rpc.tx_sender]", "[bsc_fee_optimization]",
     "[bsc_optimizations]"}

Occurrences(line, file) ==
    Cardinality({i \in 1..Len(file) : file[i] = line})

\* line i of the file lies in a [bsc_optimizations] section: the header
\* itself, or a line after it with no other section header in between
InBscSection(file, i) ==
    \E j \in 1..i :
        /\ file[j] = "[bsc_optimizations]"
        /\ \A k \in (j + 1)..i :
              file[k] \notin SectionHeaders \ {"[bsc_optimizations]"}

\* the lines of the file outside its [bsc_optimizations] sections, in order
OutsideBscSection(file) ==
    LET kept == {i \in 1..Len(file) : ~InBscSection(file, i)}
        nth(n) == CHOOSE i \in kept :
                      Cardinality({k \in kept : k < i}) = n - 1
    IN  [n \in 1..Cardinality(kept) |-> file[nth(n)]]

\* C30: after apply_bsc_optimizations has run (once or more) on a chain
\* config, every section header of the template occurs exactly once in the
\* file, and the lines the file had before the run outside its
\* [bsc_optimizations] section are still there, in order, at its start.
C30_ApplyIsIdempotent ==
    ApplyReturned
        => /\ \A header \in TemplateHeaders :
                 Occurrences(header, chain_config_file) = 1
           /\ SubSeq(chain_config_file, 1,
                     Len(OutsideBscSection(call.existing_config)))
                 = OutsideBscSection(call.existing_config)

=============================================================================
